---------------------------- MODULE Spec2Model ----------------------------
(***************************************************************************)
(* Model of src/Vector/vector.h: RawMemory<T> (an owned block of           *)
(* uninitialized storage) and Vector<T> (live objects placed in a block).  *)
(*                                                                         *)
(* The heap is a table of blocks; a block is a sequence of slots; a slot   *)
(* either holds a live T (live = TRUE, val = its value) or is              *)
(* uninitialized.  A Vector is the triple (data_.buffer_, data_.capacity_, *)
(* size_).  Every public method is one action.  `last` records the call    *)
(* that was made last: its arguments, the receiver as it was before the    *)
(* call, and what the call returned.                                       *)
(***************************************************************************)
EXTENDS Integers, Sequences, FiniteSets

VARIABLES heap, vec, last, halted, appended, nothrow_move, faults

vars == <<heap, vec, last, halted, appended, nothrow_move, faults>>

(* ------------------------------ bounds -------------------------------- *)

\* largest capacity a vector is grown to
MaxCap == 4
\* element values are 0 .. MaxVal
MaxVal == 2

\* the limits of the one-vector specifications, and the tighter ones of the
\* two-vector specifications
Lim == [cap |-> MaxCap, vals |-> 0 .. MaxVal]
Lim2 == [cap |-> MaxCap - 2, vals |-> 0 .. MaxVal - 1]
\* the limits of the specification of copies, where two vectors undergo
\* every mutation: half the capacity
LimCopy == [cap |-> MaxCap \div 2, vals |-> 0 .. MaxVal - 1]
\* the limits of the specification of the documented scenario, with the
\* scenario's element values
ScenarioVals == {1, 2, 3, 9}
LimScenario == [cap |-> MaxCap, vals |-> ScenarioVals]
\* the limits of the appends-only specification: three doublings
LimAppend == [cap |-> 2 * MaxCap, vals |-> 0 .. MaxVal]

\* the value-initialized T()
Default == 0
\* the bytes of a slot no object was ever constructed in
Indet == -1
Vecs == {"a", "b"}
nullptr == 0
\* block addresses: every vector owns at most one block, and a call that
\* reallocates holds one more until it returns
NumBlocks == Cardinality(Vecs) + 1

(* ------------------------------ slots --------------------------------- *)

RawSlot == [live |-> FALSE, val |-> Indet]
LiveSlot(x) == [live |-> TRUE, val |-> x]
RawSlots(n) == [i \in 1 .. n |-> RawSlot]
LiveCount(s) == Cardinality({i \in 1 .. Len(s) : s[i].live})

\* placement new / std::uninitialized_*: an object with value x starts to
\* live in the slot (whatever the slot held is overwritten, not destroyed)
ConstructAt(s, i, x) == [s EXCEPT ![i] = LiveSlot(x)]
\* ~T() on slot i: the slot is uninitialized storage again
DestroyAt(s, i) == [s EXCEPT ![i] = RawSlot]
\* T::operator= on slot i: the value changes, the lifetime does not
AssignAt(s, i, x) == [s EXCEPT ![i].val = x]

\* what a moved-from T holds: its old value when moving is copying (int),
\* the empty value otherwise (std::string)
MoveModes == {"keep", "reset"}
MovedFrom(x, mf) == IF mf = "keep" THEN x ELSE Default

(* ----------------------------- RawMemory ------------------------------ *)

FreeBlock == [alloc |-> FALSE, twice |-> FALSE, slots |-> << >>]
FreeIds(h) == {i \in 1 .. NumBlocks : ~h[i].alloc}
MinOf(S) == CHOOSE i \in S : \A j \in S : i <= j

\* RawMemory::Allocate: operator new(n * sizeof(T)), nullptr for n = 0
Allocate(h, n) ==
    IF n = 0 THEN [heap |-> h, buf |-> nullptr]
    ELSE LET id == MinOf(FreeIds(h))
         IN  [heap |-> [h EXCEPT ![id] = [alloc |-> TRUE, twice |-> h[id].twice,
                                          slots |-> RawSlots(n)]],
              buf |-> id]

\* RawMemory::Deallocate: operator delete(buf); delete of nullptr does nothing
Deallocate(h, buf) ==
    IF buf = nullptr THEN h
    ELSE [h EXCEPT ![buf] = [alloc |-> FALSE,
                             twice |-> h[buf].twice \/ ~h[buf].alloc,
                             slots |-> << >>]]

\* whether an allocation of n elements can be served
CanAllocate(h, n) == n = 0 \/ FreeIds(h) # {}

\* number of live objects whose storage operator delete(buf) gives back
LostAt(h, buf) == IF buf = nullptr THEN 0 ELSE LiveCount(h[buf].slots)

SlotsOf(h, buf) == IF buf = nullptr THEN << >> ELSE h[buf].slots

SetSlots(h, buf, s) == IF buf = nullptr THEN h ELSE [h EXCEPT ![buf].slots = s]

(* ------------------------- <memory> algorithms ------------------------ *)

\* slots from+1 .. from+n of s (from is the 0-based offset of the first)
InRange(i, from, n) == from < i /\ i <= from + n
AnyDead(s, from, n) == \E i \in 1 .. Len(s) : InRange(i, from, n) /\ ~s[i].live

\* std::uninitialized_move_n(src + from, n, dst + to): the sources stay
\* alive, in their moved-from state
UninitializedMoveN(src, from, n, dst, to, mf) ==
    [src |-> [i \in 1 .. Len(src) |->
                 IF InRange(i, from, n)
                 THEN [src[i] EXCEPT !.val = MovedFrom(src[i].val, mf)]
                 ELSE src[i]],
     dst |-> [j \in 1 .. Len(dst) |->
                 IF InRange(j, to, n) THEN LiveSlot(src[j - to + from].val)
                 ELSE dst[j]],
     threw |-> FALSE]

\* std::uninitialized_copy_n(src + from, n, dst + to); failAt is the 0-based
\* index in src of the element whose copy constructor throws (-1: none).
\* On a throw the copies this call made are destroyed again.
UninitializedCopyN(src, from, n, dst, to, failAt) ==
    LET threw == from <= failAt /\ failAt < from + n
    IN  [src |-> src,
         dst |-> [j \in 1 .. Len(dst) |->
                     IF InRange(j, to, n)
                     THEN IF ~threw THEN LiveSlot(src[j - to + from].val)
                          ELSE IF j - to + from - 1 < failAt THEN RawSlot
                          ELSE dst[j]
                     ELSE dst[j]],
         threw |-> threw]

\* std::destroy_n(s + from, n)
DestroyN(s, from, n) ==
    [i \in 1 .. Len(s) |-> IF InRange(i, from, n) THEN RawSlot ELSE s[i]]

\* std::uninitialized_value_construct_n(s + from, n)
UninitializedValueConstructN(s, from, n) ==
    [i \in 1 .. Len(s) |-> IF InRange(i, from, n) THEN LiveSlot(Default) ELSE s[i]]

\* a relocation that stops one element short
RelocateButLast(nm, src, from, n, dst, to, mf, failAt) ==
    IF nm THEN UninitializedMoveN(src, from, n - 1, dst, to, mf)
    ELSE UninitializedCopyN(src, from, n - 1, dst, to, failAt)

\* a relocation that moves whatever T is: the elements before the one whose
\* construction throws are left moved-from
RelocateByMove(nm, src, from, n, dst, to, mf, failAt) ==
    LET threw == from <= failAt /\ failAt < from + n
        m == UninitializedMoveN(src, from, IF threw THEN failAt - from ELSE n, dst, to, mf)
    IN  [src |-> m.src, dst |-> IF threw THEN dst ELSE m.dst, threw |-> threw]

\* the relocation both Reserve and Emplace choose with
\* if constexpr (is_nothrow_move_constructible_v<T> || !is_copy_constructible_v<T>)
Relocate(nm, src, from, n, dst, to, mf, failAt) ==
    IF nm THEN UninitializedMoveN(src, from, n, dst, to, mf)
    ELSE UninitializedCopyN(src, from, n, dst, to, failAt)

(* ------------------------------ failures ------------------------------ *)

\* where a call is made to fail: operator new throws std::bad_alloc, the
\* constructor of the inserted element throws, or the copy constructor
\* throws while it copies element `at`
NoFail == [kind |-> "none", at |-> -1]
AllocFail == [kind |-> "alloc", at |-> -1]
CtorFail == [kind |-> "ctor", at |-> -1]
CopyFail(i) == [kind |-> "copy", at |-> i]
FailAt(f) == IF f.kind = "copy" THEN f.at ELSE -1

\* the failures a growth of a vector of `size` elements can meet: a type
\* that is relocated by move has a move constructor that does not throw
GrowthFails(nm, size) ==
    {NoFail, AllocFail} \cup (IF nm THEN {} ELSE {CopyFail(i) : i \in 0 .. size - 1})

(* ------------------------------- Vector ------------------------------- *)

EmptyVec == [alive |-> TRUE, buf |-> nullptr, cap |-> 0, size |-> 0]
\* a Vector object that is not constructed (before its constructor, after
\* its destructor)
NoVec == [alive |-> FALSE, buf |-> nullptr, cap |-> 0, size |-> 0]

\* what a method leaves behind: the heap, the receiver, the returned
\* iterator (block and index), whether it threw, how many live objects lost
\* their storage without being destroyed, whether it did something undefined
\* (ub); w is the other operand of a two-vector method, oob whether a slot
\* outside the block was reached
Outcome(h, v, blk, idx, threw, lost, ub) ==
    [heap |-> h, v |-> v, w |-> v, retbuf |-> blk, ret |-> idx, threw |-> threw,
     lost |-> lost, ub |-> ub, oob |-> FALSE, trace |-> << >>]

\* a step of a method as it is reached, in the order of the statements: what
\* it does (ev), the index of the first slot it works on and how many
Ev(ev, at, n) == [ev |-> ev, at |-> at, n |-> n]
NoRet == -1

\* a Reserve that swaps the new block in without relocating the elements
ReserveVecNoRelocate(h, v, new_capacity, nm, f, mf) ==
    IF new_capacity <= v.cap THEN Outcome(h, v, nullptr, NoRet, FALSE, 0, FALSE)
    ELSE LET new_data == Allocate(h, new_capacity)
             h1 == SetSlots(new_data.heap, v.buf, DestroyN(SlotsOf(h, v.buf), 0, v.size))
         IN  Outcome(Deallocate(h1, v.buf),
                     [v EXCEPT !.buf = new_data.buf, !.cap = new_capacity],
                     nullptr, NoRet, FALSE, 0, FALSE)

\* Vector::Reserve
ReserveVec(h, v, new_capacity, nm, f, mf) ==
    IF new_capacity <= v.cap THEN Outcome(h, v, nullptr, NoRet, FALSE, 0, FALSE)
    ELSE IF f.kind = "alloc" THEN Outcome(h, v, nullptr, NoRet, TRUE, 0, FALSE)
    ELSE
    LET new_data == Allocate(h, new_capacity)
        old == SlotsOf(h, v.buf)
        rel == Relocate(nm, old, 0, v.size, RawSlots(new_capacity), 0, mf, FailAt(f))
        ub == AnyDead(old, 0, v.size)
        h0 == SetSlots(SetSlots(new_data.heap, new_data.buf, rel.dst), v.buf, rel.src)
    IN  IF rel.threw
        THEN \* ~RawMemory of new_data releases the new block
             Outcome(Deallocate(h0, new_data.buf), v, nullptr, NoRet, TRUE,
                     LiveCount(rel.dst), ub)
        ELSE LET h2 == SetSlots(h0, v.buf, DestroyN(rel.src, 0, v.size))
                 \* data_.Swap(new_data); ~RawMemory of new_data releases the old block
                 lost == LostAt(h2, v.buf)
             IN  Outcome(Deallocate(h2, v.buf),
                         [v EXCEPT !.buf = new_data.buf, !.cap = new_capacity],
                         nullptr, NoRet, FALSE, lost, ub)

\* the argument of Insert/Emplace/PushBack: a value of its own, or a
\* reference to element x of the vector it is inserted into (const T&)
Fresh(x) == [alias |-> FALSE, x |-> x]
Alias(k) == [alias |-> TRUE, x |-> k]
\* T(std::forward<Args>(args)...) evaluated when the block holds slots s
ArgVal(s, arg) == IF arg.alias THEN s[arg.x + 1].val ELSE arg.x
ArgDead(s, arg) == arg.alias /\ ~s[arg.x + 1].live

\* std::move(s + first, s + last, s + d_first), within one block: from the
\* first element up, each is move-assigned to the range starting at d_first
RECURSIVE MoveForward(_, _, _, _, _)
MoveForward(s, first, lst, d_first, mf) ==
    IF lst <= first THEN s
    ELSE MoveForward([s EXCEPT ![d_first + 1].val = s[first + 1].val,
                               ![first + 1].val = MovedFrom(s[first + 1].val, mf)],
                     first + 1, lst, d_first + 1, mf)

\* the shift done front to back, as std::move would do it
MoveBackwardAsForward(s, first, lst, d_last, mf) ==
    MoveForward(s, first, lst, d_last - (lst - first), mf)

\* std::move_backward(s + first, s + last, s + d_last), within one block:
\* from the last element down, each is move-assigned one range further right
RECURSIVE MoveBackward(_, _, _, _, _)
MoveBackward(s, first, lst, d_last, mf) ==
    IF lst <= first THEN s
    ELSE MoveBackward([s EXCEPT ![d_last].val = s[lst].val,
                                ![lst].val = MovedFrom(s[lst].val, mf)],
                      first, lst - 1, d_last - 1, mf)

\* a growth by one slot
NewSizePlusOne(size) == size + 1

\* size_t new_size = (size_ == 0 ? 1 : size_ * 2)
NewSize(size) == IF size = 0 THEN 1 ELSE size * 2

\* a growth that destroys the old elements as soon as the span before the
\* insertion point is relocated
EmplaceGrowDestroyEarly(h, v, begin1, arg, nm, f, mf) ==
    LET new_size == NewSize(v.size)
        end1 == v.size - begin1
        old == SlotsOf(h, v.buf)
        tv == Allocate(h, new_size)
        t0 == ConstructAt(RawSlots(new_size), begin1 + 1, ArgVal(old, arg))
        r1 == Relocate(nm, old, 0, begin1, t0, 0, mf, -1)
        gone == DestroyN(r1.src, 0, v.size)
        r2 == Relocate(nm, gone, begin1, end1, r1.dst, begin1 + 1, mf, -1)
        h1 == SetSlots(SetSlots(tv.heap, tv.buf, r2.dst), v.buf, r2.src)
        o == Outcome(Deallocate(h1, v.buf),
                     [v EXCEPT !.buf = tv.buf, !.cap = new_size, !.size = v.size + 1],
                     tv.buf, begin1, FALSE, 0, end1 > 0)
    IN  [o EXCEPT !.trace = <<Ev("allocate", 0, new_size), Ev("construct", begin1, 1),
                              Ev("relocate", 0, begin1), Ev("destroy", 0, v.size),
                              Ev("relocate", begin1, end1), Ev("swap", 0, 0),
                              Ev("size", 0, v.size + 1)>>]

\* Vector::Emplace, the branch size_ == data_.Capacity()
EmplaceGrow(h, v, begin1, arg, nm, f, mf) ==
    LET new_size == NewSize(v.size)
        end1 == v.size - begin1
        old == SlotsOf(h, v.buf)
        \* RawMemory<T> tv(new_size)
        e1 == <<Ev("allocate", 0, new_size)>>
        \* new (tv.GetAddress() + begin1) T(args...)
        e2 == Append(e1, Ev("construct", begin1, 1))
        \* uninitialized_move_n / uninitialized_copy_n of [0, begin1)
        e3 == Append(e2, Ev("relocate", 0, begin1))
        \* uninitialized_move_n / uninitialized_copy_n of [begin1, size_)
        e4 == Append(e3, Ev("relocate", begin1, end1))
        \* std::destroy_n(begin(), size_); data_.Swap(tv); ++size_
        e7 == e4 \o <<Ev("destroy", 0, v.size), Ev("swap", 0, 0), Ev("size", 0, v.size + 1)>>
    IN  IF f.kind = "alloc"
        THEN [Outcome(h, v, nullptr, NoRet, TRUE, 0, FALSE) EXCEPT !.trace = e1]
        ELSE
        LET tv == Allocate(h, new_size)
            \* new (tv.GetAddress() + begin1) T(args...)
            t0 == ConstructAt(RawSlots(new_size), begin1 + 1, ArgVal(old, arg))
            r1 == Relocate(nm, old, 0, begin1, t0, 0, mf, FailAt(f))
            r2 == Relocate(nm, r1.src, begin1, end1, r1.dst, begin1 + 1, mf, FailAt(f))
            ub == AnyDead(old, 0, v.size) \/ ArgDead(old, arg)
            unwind(r, e) == \* ~RawMemory of tv releases the new block as it is
                [Outcome(Deallocate(SetSlots(SetSlots(tv.heap, tv.buf, r.dst), v.buf, r.src),
                                    tv.buf),
                         v, nullptr, NoRet, TRUE, LiveCount(r.dst), ub)
                    EXCEPT !.trace = e]
        IN  IF f.kind = "ctor" THEN unwind([src |-> old, dst |-> RawSlots(new_size)], e2)
            ELSE IF r1.threw THEN unwind(r1, e3)
            ELSE IF r2.threw THEN unwind(r2, e4)
            ELSE
            LET h1 == SetSlots(tv.heap, tv.buf, r2.dst)
                h2 == SetSlots(h1, v.buf, DestroyN(r2.src, 0, v.size))
                \* data_.Swap(tv); ~RawMemory of tv releases the old block
                lost == LostAt(h2, v.buf)
            IN  [Outcome(Deallocate(h2, v.buf),
                         [v EXCEPT !.buf = tv.buf, !.cap = new_size, !.size = v.size + 1],
                         tv.buf, begin1, FALSE, lost, ub)
                    EXCEPT !.trace = e7]

\* an insertion into spare capacity that builds the element at end() and
\* shifts nothing
EmplaceInPlaceAtEnd(h, v, begin1, arg, mf) ==
    LET s == SlotsOf(h, v.buf)
    IN  Outcome(SetSlots(h, v.buf, ConstructAt(s, v.size + 1, ArgVal(s, arg))),
                [v EXCEPT !.size = v.size + 1], v.buf, begin1, FALSE, 0, ArgDead(s, arg))

\* Vector::Emplace, the branch size_ < data_.Capacity()
EmplaceInPlace(h, v, begin1, arg, mf) ==
    LET s == SlotsOf(h, v.buf)
    IN  IF v.size # begin1
        THEN LET \* new (end()) T(std::forward<T>(*(end() - 1)))
                 s1 == [ConstructAt(s, v.size + 1, s[v.size].val)
                           EXCEPT ![v.size].val = MovedFrom(s[v.size].val, mf)]
                 \* std::move_backward(begin() + begin1, end() - 1, end())
                 s2 == MoveBackward(s1, begin1, v.size - 1, v.size, mf)
                 \* data_[begin1] = T(std::forward<Args>(args)...)
                 s3 == AssignAt(s2, begin1 + 1, ArgVal(s2, arg))
             IN  Outcome(SetSlots(h, v.buf, s3), [v EXCEPT !.size = v.size + 1],
                         v.buf, begin1, FALSE, 0,
                         AnyDead(s, begin1, v.size - begin1) \/ ArgDead(s2, arg))
        ELSE \* new (begin() + begin1) T(std::forward<Args>(args)...)
             Outcome(SetSlots(h, v.buf, ConstructAt(s, begin1 + 1, ArgVal(s, arg))),
                     [v EXCEPT !.size = v.size + 1],
                     v.buf, begin1, FALSE, 0, ArgDead(s, arg))

\* Vector::Emplace
EmplaceVec(h, v, begin1, arg, nm, f, mf) ==
    IF v.size = v.cap THEN EmplaceGrow(h, v, begin1, arg, nm, f, mf)
    ELSE EmplaceInPlace(h, v, begin1, arg, mf)

\* an Erase that moves the elements after pos1 + 1 only
EraseVecShort(h, v, pos1, mf) ==
    LET s == SlotsOf(h, v.buf)
        s1 == MoveForward(s, pos1 + 2, v.size, pos1 + 1, mf)
        s2 == DestroyN(s1, v.size - 1, 1)
    IN  Outcome(SetSlots(h, v.buf, s2), [v EXCEPT !.size = v.size - 1],
                v.buf, pos1, FALSE, 0, AnyDead(s, pos1, v.size - pos1))

\* Vector::Erase
EraseVec(h, v, pos1, mf) ==
    LET s == SlotsOf(h, v.buf)
        \* std::move(begin() + pos1 + 1, end(), begin() + pos1)
        s1 == MoveForward(s, pos1 + 1, v.size, pos1, mf)
        \* std::destroy_n(end() - 1, 1)
        s2 == DestroyN(s1, v.size - 1, 1)
    IN  Outcome(SetSlots(h, v.buf, s2), [v EXCEPT !.size = v.size - 1],
                v.buf, pos1, FALSE, 0, AnyDead(s, pos1, v.size - pos1))

\* a PopBack that only lowers the size
PopBackVecNoDestroy(h, v) ==
    Outcome(h, [v EXCEPT !.size = v.size - 1], nullptr, NoRet, FALSE, 0, FALSE)

\* Vector::PopBack
PopBackVec(h, v) ==
    LET s == SlotsOf(h, v.buf)
    IN  Outcome(SetSlots(h, v.buf, DestroyAt(s, v.size)), [v EXCEPT !.size = v.size - 1],
                nullptr, NoRet, FALSE, 0, ~s[v.size].live)

\* size_t arithmetic: a - b wraps around below zero.  SizeModulus stands for
\* 2^64, which the model checker's integers cannot hold; all that matters is
\* that a wrapped count is larger than any block.
SizeModulus == 65536
SizeSub(a, b) == (a - b + SizeModulus) % SizeModulus

\* a Resize whose truncation spares the first of the excess elements
ResizeVecKeepOne(h, v, new_size, nm, f, mf) ==
    LET s == SlotsOf(h, v.buf)
    IN  Outcome(SetSlots(h, v.buf, DestroyN(s, new_size + 1, v.size - new_size - 1)),
                [v EXCEPT !.size = new_size], nullptr, NoRet, FALSE, 0, FALSE)

\* Vector::Resize
ResizeVec(h, v, new_size, nm, f, mf) ==
    IF v.cap > new_size
    THEN LET s == SlotsOf(h, v.buf)
             n == SizeSub(v.size, new_size)
             o == Outcome(SetSlots(h, v.buf, DestroyN(s, new_size, n)),
                          [v EXCEPT !.size = new_size], nullptr, NoRet, FALSE, 0,
                          AnyDead(s, new_size, n) \/ new_size + n > v.cap)
         IN  [o EXCEPT !.oob = new_size + n > v.cap]
    ELSE IF v.cap < new_size
    THEN LET r == ReserveVec(h, v, new_size, nm, f, mf)
             s == SlotsOf(r.heap, r.v.buf)
             n == SizeSub(new_size, v.size)
         IN  IF r.threw THEN r
             ELSE Outcome(SetSlots(r.heap, r.v.buf, UninitializedValueConstructN(s, 0, n)),
                          [r.v EXCEPT !.size = new_size], nullptr, NoRet, FALSE,
                          r.lost + LiveCount(SubSeq(s, 1, n)), r.ub)
    ELSE Outcome(h, [v EXCEPT !.size = new_size], nullptr, NoRet, FALSE, 0, FALSE)

\* Vector::Vector(size_t size)
SizedVec(h, size) ==
    LET data == Allocate(h, size)
    IN  Outcome(SetSlots(data.heap, data.buf,
                         UninitializedValueConstructN(RawSlots(size), 0, size)),
                [alive |-> TRUE, buf |-> data.buf, cap |-> size, size |-> size],
                nullptr, NoRet, FALSE, 0, FALSE)

\* a copy that takes over the address of the block instead of the elements
CopyVecShallow(h, other) ==
    Outcome(h, [alive |-> TRUE, buf |-> other.buf, cap |-> other.cap, size |-> other.size],
            nullptr, NoRet, FALSE, 0, FALSE)

\* Vector::Vector(const Vector& other)
CopyVec(h, other) ==
    LET data == Allocate(h, other.size)
        src == SlotsOf(h, other.buf)
        cp == UninitializedCopyN(src, 0, other.size, RawSlots(other.size), 0, -1)
    IN  Outcome(SetSlots(data.heap, data.buf, cp.dst),
                [alive |-> TRUE, buf |-> data.buf, cap |-> other.size, size |-> other.size],
                nullptr, NoRet, FALSE, 0, AnyDead(src, 0, other.size))

\* RawMemory::operator=(RawMemory&&) as Vector::operator=(Vector&&) and
\* std::exchange use it: the block of rhs, with its capacity, becomes the
\* block of the receiver; nothing is done with the block the receiver held
RawMemoryMoveAssign(h, v, rhs) == [heap |-> h, v |-> [v EXCEPT !.buf = rhs.buf, !.cap = rhs.cap]]

\* Vector::Vector(Vector&& other); w is other afterwards
MoveVec(h, other) ==
    [Outcome(h, [alive |-> TRUE, buf |-> other.buf, cap |-> other.cap, size |-> other.size],
             nullptr, NoRet, FALSE, 0, FALSE)
        EXCEPT !.w = [other EXCEPT !.buf = nullptr, !.cap = 0, !.size = 0]]

\* Vector::~Vector, then ~RawMemory of data_
DestroyVec(h, v) ==
    LET s == SlotsOf(h, v.buf)
        h1 == SetSlots(h, v.buf, DestroyN(s, 0, v.size))
    IN  Outcome(Deallocate(h1, v.buf), NoVec, nullptr, NoRet, FALSE,
                LostAt(h1, v.buf), AnyDead(s, 0, v.size))

\* Vector::Swap; w is other afterwards
SwapVec(h, v, other) ==
    [Outcome(h, [v EXCEPT !.buf = other.buf, !.cap = other.cap, !.size = other.size],
             nullptr, NoRet, FALSE, 0, FALSE)
        EXCEPT !.w = [other EXCEPT !.buf = v.buf, !.cap = v.cap, !.size = v.size]]

\* for (id = 0; id < n; ++id) data_[id] = rhs.data_[id]
AssignPrefix(s, r, n) ==
    [i \in 1 .. Len(s) |-> IF i <= n THEN [s[i] EXCEPT !.val = r[i].val] ELSE s[i]]

\* a copy assignment that copies and swaps whatever the capacity is
CopyAssignVecBySwap(h, v, rhs) ==
    LET copy == CopyVec(h, rhs)
        gone == DestroyVec(copy.heap, v)
    IN  Outcome(gone.heap, copy.v, nullptr, NoRet, FALSE, gone.lost, copy.ub \/ gone.ub)

\* Vector::operator=(const Vector& rhs), this != &rhs
CopyAssignVec(h, v, rhs) ==
    IF rhs.size > v.cap
    THEN LET copy == CopyVec(h, rhs)
             \* Swap(copy); ~Vector of copy destroys what the receiver held
             gone == DestroyVec(copy.heap, v)
         IN  Outcome(gone.heap, copy.v, nullptr, NoRet, FALSE, gone.lost,
                     copy.ub \/ gone.ub)
    ELSE LET s == SlotsOf(h, v.buf)
             r == SlotsOf(h, rhs.buf)
         IN  IF rhs.size < v.size
             THEN LET ts == SizeSub(v.size, rhs.size)
                      s1 == AssignPrefix(s, r, rhs.size)
                  IN  Outcome(SetSlots(h, v.buf, DestroyN(s1, rhs.size, ts)),
                              [v EXCEPT !.size = rhs.size], nullptr, NoRet, FALSE, 0,
                              AnyDead(s, 0, v.size) \/ AnyDead(r, 0, rhs.size))
             ELSE LET ts == SizeSub(rhs.size, v.size)
                      s1 == AssignPrefix(s, r, v.size)
                      \* std::uninitialized_copy_n(data_.GetAddress() + size_, ts,
                      \*                           data_.GetAddress() + size_)
                      cp == UninitializedCopyN(s1, v.size, ts, s1, v.size, -1)
                  IN  Outcome(SetSlots(h, v.buf, cp.dst),
                              [v EXCEPT !.size = rhs.size], nullptr, NoRet, FALSE, 0,
                              AnyDead(s, 0, v.size) \/ AnyDead(r, 0, v.size)
                                 \/ AnyDead(s1, v.size, ts))

\* a move assignment that exchanges the two vectors
MoveAssignVecBySwap(h, v, rhs) == SwapVec(h, v, rhs)

\* Vector::operator=(Vector&& rhs), this != &rhs; w is rhs afterwards
MoveAssignVec(h, v, rhs) ==
    LET m == RawMemoryMoveAssign(h, v, rhs)
    IN  [Outcome(m.heap, [m.v EXCEPT !.size = rhs.size], nullptr, NoRet, FALSE,
                 LostAt(h, v.buf), FALSE)
            EXCEPT !.w = [rhs EXCEPT !.buf = nullptr, !.cap = 0, !.size = 0]]

\* T& Vector::operator[](index) used to write: v[index] = x
WriteVec(h, v, index, x) ==
    LET s == SlotsOf(h, v.buf)
    IN  Outcome(SetSlots(h, v.buf, AssignAt(s, index + 1, x)), v, nullptr, NoRet,
                FALSE, 0, ~s[index + 1].live)

(* ------------------------------ the calls ----------------------------- *)

NoArg == [alias |-> FALSE, x |-> -1]
Snapshot(v) == [v |-> vec[v], slots |-> SlotsOf(heap, vec[v].buf)]

\* the slots of [0, size) whose bytes were never written: reading them
\* yields whatever the memory happens to hold
Unwritten(h, v) ==
    {i \in 1 .. Len(SlotsOf(h, v.buf)) : i <= v.size /\ SlotsOf(h, v.buf)[i].val = Indet}
Materialise(h, v, g) ==
    SetSlots(h, v.buf, [i \in 1 .. Len(SlotsOf(h, v.buf)) |->
                           IF i \in DOMAIN g
                           THEN [SlotsOf(h, v.buf)[i] EXCEPT !.val = g[i]]
                           ELSE SlotsOf(h, v.buf)[i]])

\* what the caller noted of the vector before an earlier call: nothing, for
\* most calls
NoNote == [v |-> NoVec, slots |-> << >>]

\* A call of method op on vector self (other: its second operand, self when
\* it has none) with outcome o.  A call that did something undefined either
\* goes on as computed or ends the program.  note: the snapshot the caller
\* took before the call whose result this call is given.
CallNoting(lim, op, self, other, n, arg, f, o, note) ==
    /\ \E g \in [Unwritten(o.heap, o.v) -> lim.vals] :
          heap' = Materialise(o.heap, o.v, g)
    /\ vec' = IF other = self THEN [vec EXCEPT ![self] = o.v]
              ELSE [vec EXCEPT ![self] = o.v, ![other] = o.w]
    /\ \E crash \in (IF o.ub THEN BOOLEAN ELSE {FALSE}) :
          /\ halted' = crash
          /\ last' = [op |-> op, self |-> self, other |-> other, n |-> n, arg |-> arg,
                      f |-> f, pre |-> Snapshot(self), pre2 |-> Snapshot(other),
                      ret |-> o.ret, retbuf |-> o.retbuf, threw |-> o.threw,
                      lost |-> o.lost, ub |-> o.ub, oob |-> o.oob /\ crash,
                      note |-> note, trace |-> o.trace]
    /\ UNCHANGED <<nothrow_move, faults>>

Call(lim, op, self, other, n, arg, f, o) ==
    CallNoting(lim, op, self, other, n, arg, f, o, NoNote)

\* a call can be made when the program runs and the caller is done with the
\* call before
Idle == ~halted /\ last.op = "none"
Usable(self) == Idle /\ vec[self].alive

\* the failures a call that may grow the block is run with
FailsOf(self, grows) ==
    IF grows /\ faults THEN GrowthFails(nothrow_move, vec[self].size) ELSE {NoFail}
EmplaceFails(self) ==
    FailsOf(self, vec[self].size = vec[self].cap)
       \cup (IF vec[self].size = vec[self].cap /\ faults THEN {CtorFail} ELSE {})
\* the arguments Insert/PushBack can be given
Args(lim, self) == {Fresh(x) : x \in lim.vals} \cup {Alias(k) : k \in 0 .. vec[self].size - 1}
\* the capacity an insertion leaves
CapAfterEmplace(v) == IF v.size = v.cap THEN (IF v.size = 0 THEN 1 ELSE v.size * 2) ELSE v.cap

\* v.PushBack(value) / v.EmplaceBack(value); logged: the value is noted in
\* `appended`
PushBackCall(lim, self, logged) ==
    /\ Usable(self)
    /\ CapAfterEmplace(vec[self]) <= lim.cap
    /\ CanAllocate(heap, 1)
    /\ \E arg \in Args(lim, self), f \in EmplaceFails(self), mf \in MoveModes :
          LET o == EmplaceVec(heap, vec[self], vec[self].size, arg, nothrow_move, f, mf)
          IN  /\ Call(lim, "PushBack", self, self, vec[self].size, arg, f, o)
              /\ appended' = IF o.threw \/ ~logged THEN appended
                             ELSE Append(appended, ArgVal(SlotsOf(heap, vec[self].buf), arg))

PushBack(lim, self) == PushBackCall(lim, self, FALSE)
PushBackLogged(lim, self) == PushBackCall(lim, self, TRUE)

\* v.Insert(v.begin() + p, value) / v.Emplace(v.begin() + p, value)
Insert(lim, self) ==
    /\ Usable(self)
    /\ CapAfterEmplace(vec[self]) <= lim.cap
    /\ CanAllocate(heap, 1)
    /\ \E p \in 0 .. vec[self].size, arg \in Args(lim, self), f \in EmplaceFails(self),
          mf \in MoveModes :
          Call(lim, "Insert", self, self, p, arg, f,
               EmplaceVec(heap, vec[self], p, arg, nothrow_move, f, mf))
    /\ UNCHANGED appended

\* v.Erase(v.begin() + p)
Erase(lim, self) ==
    /\ Usable(self)
    /\ \E p \in 0 .. vec[self].size - 1, mf \in MoveModes :
          Call(lim, "Erase", self, self, p, NoArg, NoFail, EraseVec(heap, vec[self], p, mf))
    /\ UNCHANGED appended

\* v.Erase(v.Insert(v.begin() + p, value)), the second call: Erase is given
\* the iterator the Insert before it returned
EraseReturned(lim, self) ==
    /\ ~halted /\ vec[self].alive
    /\ last.op = "Insert" /\ last.self = self /\ ~last.threw
    /\ last.retbuf = vec[self].buf
    /\ \E mf \in MoveModes :
          CallNoting(lim, "Erase", self, self, last.ret, NoArg, NoFail,
                     EraseVec(heap, vec[self], last.ret, mf), last.pre)
    /\ UNCHANGED appended

\* v.PopBack()
PopBack(lim, self) ==
    /\ Usable(self)
    /\ vec[self].size >= 1
    /\ Call(lim, "PopBack", self, self, 0, NoArg, NoFail, PopBackVec(heap, vec[self]))
    /\ UNCHANGED appended

\* v.Reserve(k)
Reserve(lim, self) ==
    /\ Usable(self)
    /\ CanAllocate(heap, 1)
    /\ \E k \in 0 .. lim.cap, mf \in MoveModes :
          \E f \in FailsOf(self, k > vec[self].cap) :
             Call(lim, "Reserve", self, self, k, NoArg, f,
                  ReserveVec(heap, vec[self], k, nothrow_move, f, mf))
    /\ UNCHANGED appended

\* v.Resize(n), n one of sizes
ResizeTo(lim, self, sizes) ==
    /\ Usable(self)
    /\ CanAllocate(heap, 1)
    /\ \E n \in sizes, mf \in MoveModes :
          \E f \in FailsOf(self, n > vec[self].cap) :
             Call(lim, "Resize", self, self, n, NoArg, f,
                  ResizeVec(heap, vec[self], n, nothrow_move, f, mf))
    /\ UNCHANGED appended

\* v.Resize(n)
Resize(lim, self) == ResizeTo(lim, self, 0 .. lim.cap)
\* v.Resize(n) of a caller that only ever shortens: n < v.Size()
ResizeDown(lim, self) == ResizeTo(lim, self, 0 .. vec[self].size - 1)

\* v[i] = x
Write(lim, self) ==
    /\ Usable(self)
    /\ \E i \in 0 .. vec[self].size - 1, x \in lim.vals :
          Call(lim, "Write", self, self, i, Fresh(x), NoFail, WriteVec(heap, vec[self], i, x))
    /\ UNCHANGED appended

\* the end of v's lifetime
Destroy(lim, self) ==
    /\ Usable(self)
    /\ Call(lim, "Destroy", self, self, 0, NoArg, NoFail, DestroyVec(heap, vec[self]))
    /\ UNCHANGED appended

\* Vector v;
DefaultConstruct(lim, self) ==
    /\ Idle /\ ~vec[self].alive
    /\ Call(lim, "Vector()", self, self, 0, NoArg, NoFail,
            Outcome(heap, EmptyVec, nullptr, NoRet, FALSE, 0, FALSE))
    /\ UNCHANGED appended

\* Vector v(n);
SizedConstruct(lim, self) ==
    /\ Idle /\ ~vec[self].alive
    /\ CanAllocate(heap, 1)
    /\ \E n \in 0 .. lim.cap :
          Call(lim, "Vector(n)", self, self, n, NoArg, NoFail, SizedVec(heap, n))
    /\ UNCHANGED appended

\* Vector v(other);
CopyConstruct(lim, self, other) ==
    /\ Idle /\ ~vec[self].alive /\ vec[other].alive
    /\ CanAllocate(heap, 1)
    /\ Call(lim, "Vector(const&)", self, other, 0, NoArg, NoFail,
            [CopyVec(heap, vec[other]) EXCEPT !.w = vec[other]])
    /\ UNCHANGED appended

\* Vector v(std::move(other));
MoveConstruct(lim, self, other) ==
    /\ Idle /\ ~vec[self].alive /\ vec[other].alive
    /\ Call(lim, "Vector(&&)", self, other, 0, NoArg, NoFail, MoveVec(heap, vec[other]))
    /\ UNCHANGED appended

\* v = rhs;
CopyAssign(lim, self, rhs) ==
    /\ Usable(self) /\ vec[rhs].alive
    /\ CanAllocate(heap, 1)
    /\ Call(lim, "=(const&)", self, rhs, 0, NoArg, NoFail,
            IF self # rhs THEN [CopyAssignVec(heap, vec[self], vec[rhs]) EXCEPT !.w = vec[rhs]]
            ELSE Outcome(heap, vec[self], nullptr, NoRet, FALSE, 0, FALSE))
    /\ UNCHANGED appended

\* v = std::move(rhs);
MoveAssign(lim, self, rhs) ==
    /\ Usable(self) /\ vec[rhs].alive
    /\ Call(lim, "=(&&)", self, rhs, 0, NoArg, NoFail,
            IF self # rhs THEN MoveAssignVec(heap, vec[self], vec[rhs])
            ELSE Outcome(heap, vec[self], nullptr, NoRet, FALSE, 0, FALSE))
    /\ UNCHANGED appended

\* v.Swap(other);
Swap(lim, self, other) ==
    /\ Usable(self) /\ vec[other].alive
    /\ Call(lim, "Swap", self, other, 0, NoArg, NoFail, SwapVec(heap, vec[self], vec[other]))
    /\ UNCHANGED appended

\* the caller has looked at what the call returned and goes on
Return ==
    /\ ~halted
    /\ last.op # "none"
    /\ last' = [op |-> "none"]
    /\ UNCHANGED <<heap, vec, halted, appended, nothrow_move, faults>>

(* --------------------------- specifications --------------------------- *)

\* Vector<T> a; nm: whether T is relocated by move, inj: whether operator new
\* and the constructors of T throw in this run
InitWith(nm, inj) ==
    /\ heap = [i \in 1 .. NumBlocks |-> FreeBlock]
    /\ vec = [v \in Vecs |-> IF v = "a" THEN EmptyVec ELSE NoVec]
    /\ last = [op |-> "none"]
    /\ halted = FALSE
    /\ appended = << >>
    /\ nothrow_move \in nm
    /\ faults = inj

Init == InitWith({TRUE}, FALSE)

\* one vector, every method of it
Next ==
    \/ PushBack(Lim, "a")
    \/ Insert(Lim, "a")
    \/ Erase(Lim, "a")
    \/ PopBack(Lim, "a")
    \/ Reserve(Lim, "a")
    \/ Resize(Lim, "a")
    \/ Write(Lim, "a")
    \/ Destroy(Lim, "a")
    \/ DefaultConstruct(Lim, "a")
    \/ SizedConstruct(Lim, "a")
    \/ Return

Spec == Init /\ [][Next]_vars

\* appends only, to a vector that starts empty
NextAppend == PushBackLogged(LimAppend, "a") \/ Return
SpecAppend == InitWith(BOOLEAN, FALSE) /\ [][NextAppend]_vars

\* one vector: insertion and removal, with Reserve to make room
NextSeq ==
    \/ PushBack(Lim, "a")
    \/ Insert(Lim, "a")
    \/ Erase(Lim, "a")
    \/ PopBack(Lim, "a")
    \/ Reserve(Lim, "a")
    \/ Return

SpecSeq == Init /\ [][NextSeq]_vars

\* one vector that grows by insertion and is shortened by Resize
NextTrunc ==
    \/ PushBack(Lim, "a")
    \/ Insert(Lim, "a")
    \/ PopBack(Lim, "a")
    \/ Reserve(Lim, "a")
    \/ ResizeDown(Lim, "a")
    \/ Return

SpecTrunc == Init /\ [][NextTrunc]_vars

\* one vector: insertions, each one possibly undone at once by an Erase of
\* the iterator it returned
NextRound ==
    \/ PushBack(Lim, "a")
    \/ Insert(Lim, "a")
    \/ EraseReturned(Lim, "a")
    \/ PopBack(Lim, "a")
    \/ Reserve(Lim, "a")
    \/ Return

SpecRound == Init /\ [][NextRound]_vars

\* one vector of the scenario's values: appends, insertions and removals,
\* in blocks of every capacity
NextScenario ==
    \/ PushBack(LimScenario, "a")
    \/ Insert(LimScenario, "a")
    \/ Erase(LimScenario, "a")
    \/ PopBack(LimScenario, "a")
    \/ Reserve(LimScenario, "a")
    \/ Return

SpecScenario == Init /\ [][NextScenario]_vars

\* one vector of a T of either kind, growing while operator new and the
\* constructors of T may throw
NextGrow ==
    \/ PushBack(Lim, "a")
    \/ Insert(Lim, "a")
    \/ PopBack(Lim, "a")
    \/ Reserve(Lim, "a")
    \/ Return

SpecGrow == InitWith(BOOLEAN, TRUE) /\ [][NextGrow]_vars

\* two vectors, every method of each but Resize and the element write
NextTwo ==
    \/ \E self \in Vecs :
          \/ PushBack(Lim2, self)
          \/ Insert(Lim2, self)
          \/ Erase(Lim2, self)
          \/ PopBack(Lim2, self)
          \/ Reserve(Lim2, self)
          \/ Destroy(Lim2, self)
          \/ DefaultConstruct(Lim2, self)
          \/ SizedConstruct(Lim2, self)
          \/ \E other \in Vecs \ {self} : CopyConstruct(Lim2, self, other)
          \/ \E other \in Vecs \ {self} : MoveConstruct(Lim2, self, other)
          \/ \E other \in Vecs : CopyAssign(Lim2, self, other)
          \/ \E other \in Vecs : MoveAssign(Lim2, self, other)
          \/ \E other \in Vecs : Swap(Lim2, self, other)
    \/ Return

SpecTwo == Init /\ [][NextTwo]_vars

\* two vectors: copy assignment between vectors of every size and capacity
NextAssign ==
    \/ \E self \in Vecs :
          \/ PushBack(Lim2, self)
          \/ PopBack(Lim2, self)
          \/ Reserve(Lim2, self)
          \/ DefaultConstruct(Lim2, self)
          \/ \E other \in Vecs : CopyAssign(Lim2, self, other)
    \/ Return

SpecAssign == Init /\ [][NextAssign]_vars

\* two vectors: the block of one given to the other by move construction and
\* move assignment
NextMove ==
    \/ \E self \in Vecs :
          \/ PushBack(Lim2, self)
          \/ Destroy(Lim2, self)
          \/ DefaultConstruct(Lim2, self)
          \/ \E other \in Vecs \ {self} : MoveConstruct(Lim2, self, other)
          \/ \E other \in Vecs : MoveAssign(Lim2, self, other)
    \/ Return

SpecMove == Init /\ [][NextMove]_vars

\* two vectors, the second one made as a copy: copies in both directions and
\* every mutation of either
NextCopy ==
    \/ \E self \in Vecs :
          \/ PushBack(LimCopy, self)
          \/ Insert(LimCopy, self)
          \/ Erase(LimCopy, self)
          \/ PopBack(LimCopy, self)
          \/ Reserve(LimCopy, self)
          \/ Resize(LimCopy, self)
          \/ Write(LimCopy, self)
          \/ Destroy(LimCopy, self)
          \/ \E other \in Vecs \ {self} : CopyConstruct(LimCopy, self, other)
          \/ \E other \in Vecs : CopyAssign(LimCopy, self, other)
    \/ Return

SpecCopy == Init /\ [][NextCopy]_vars

(* ------------------------------ properties ---------------------------- *)

\* the elements of a vector, in order: *begin() .. *(end() - 1)
ElemsOf(slots, size) == [i \in 1 .. size |-> slots[i].val]
Contents(v) == ElemsOf(SlotsOf(heap, vec[v].buf), vec[v].size)
\* the elements the receiver (the other operand) of the last call held
\* before the call
PreContents == ElemsOf(last.pre.slots, last.pre.v.size)
PreContents2 == ElemsOf(last.pre2.slots, last.pre2.v.size)

\* the sequence s with x put before its element of index p (0-based)
InsertAt(s, p, x) == SubSeq(s, 1, p) \o <<x>> \o SubSeq(s, p + 1, Len(s))
\* the sequence s without its element of index p (0-based)
RemoveAt(s, p) == SubSeq(s, 1, p) \o SubSeq(s, p + 2, Len(s))

Called(op) == last.op = op /\ ~last.threw
\* the last call moved the elements to a new block
Reallocated == last.pre.v.size = last.pre.v.cap

\* C1: starting from an empty vector, after n appends (PushBack/EmplaceBack)
\* Size() = n and element i is the i-th appended value, whichever appends
\* reallocated.
C1_AppendsKept ==
    /\ vec["a"].size = Len(appended)
    /\ Contents("a") = appended

\* an append that reallocated a full vector of four elements, two of them
\* different
C1_Witness ==
    /\ Called("PushBack")
    /\ Len(appended) = 5
    /\ last.pre.v.cap = 4 /\ vec["a"].cap = 8
    /\ last.pre.v.buf # vec["a"].buf
    /\ appended[1] # appended[4]

\* C2: Insert/Emplace(p, v) with v not an element of the vector yields size
\* s + 1, returns the position of index p in the vector's block, puts v at
\* index p, keeps elements [0, p) and moves each old element i of [p, s) to
\* index i + 1, with and without reallocation.
C2_InsertShifts ==
    (Called("Insert") /\ ~last.arg.alias) =>
       /\ vec[last.self].size = last.pre.v.size + 1
       /\ last.ret = last.n
       /\ last.retbuf = vec[last.self].buf
       /\ Contents(last.self) = InsertAt(PreContents, last.n, last.arg.x)

\* an insertion before the middle of three elements, done in place
C2_Witness ==
    /\ Called("Insert") /\ ~last.arg.alias
    /\ ~Reallocated
    /\ last.pre.v.size = 3 /\ last.n = 1
    /\ PreContents[1] # PreContents[2] /\ last.arg.x # PreContents[2]

\* C3: Insert(p, a[k]), the argument referring to an element of the same
\* vector, inserts at p the value element k held before the call and keeps
\* every other element, in shifted order, with and without reallocation.
C3_SelfInsert ==
    (Called("Insert") /\ last.arg.alias) =>
       /\ vec[last.self].size = last.pre.v.size + 1
       /\ Contents(last.self) = InsertAt(PreContents, last.n, PreContents[last.arg.x + 1])

\* C4: Erase(p) yields size s - 1, keeps elements [0, p), moves each old
\* element i of (p, s) to index i - 1, destroys exactly the one trailing slot,
\* keeps the capacity and the block, and returns the position of index p.
C4_EraseShifts ==
    Called("Erase") =>
       /\ vec[last.self].size = last.pre.v.size - 1
       /\ Contents(last.self) = RemoveAt(PreContents, last.n)
       /\ vec[last.self].cap = last.pre.v.cap
       /\ vec[last.self].buf = last.pre.v.buf
       /\ last.ret = last.n /\ last.retbuf = vec[last.self].buf
       /\ \A i \in 1 .. last.pre.v.cap :
             SlotsOf(heap, vec[last.self].buf)[i].live
                = (last.pre.slots[i].live /\ i # last.pre.v.size)

\* the first of three different elements erased
C4_Witness ==
    /\ Called("Erase")
    /\ last.pre.v.size = 3 /\ last.n = 0
    /\ PreContents[1] # PreContents[2] /\ PreContents[2] # PreContents[3]

\* C5: after the copy assignment a = b of distinct vectors, for every size
\* and capacity of a and every size of b, a.Size() = b.Size() and
\* a[i] = b[i] for every i < b.Size(), and b is unchanged.
C5_CopyAssignEqual ==
    (Called("=(const&)") /\ last.self # last.other) =>
       /\ vec[last.self].size = vec[last.other].size
       /\ Contents(last.self) = Contents(last.other)
       /\ vec[last.other] = last.pre2.v
       /\ SlotsOf(heap, vec[last.other].buf) = last.pre2.slots

\* C6: no block is released twice, and once every vector is destroyed no
\* allocated block is left unreleased.
C6_BlocksReleasedOnce ==
    /\ \A i \in DOMAIN heap : ~heap[i].twice
    /\ (\A v \in Vecs : ~vec[v].alive) => (\A i \in DOMAIN heap : ~heap[i].alloc)

\* the slots of [0, size) hold a live element each, those of [size, capacity)
\* hold none
ValidRep(v, slots) ==
    /\ v.size <= v.cap
    /\ Len(slots) = v.cap
    /\ \A i \in 1 .. v.cap : slots[i].live = (i <= v.size)

\* C7: in every state the public methods lead to, Size() <= Capacity(), every
\* slot of [0, Size()) holds a live element and every slot of
\* [Size(), Capacity()) is uninitialized.
C7_RepInvariant ==
    \A v \in Vecs : vec[v].alive => ValidRep(vec[v], SlotsOf(heap, vec[v].buf))

\* the last call is a failed growth: Reserve beyond the capacity, or an
\* append/insert at Size() = Capacity(), that threw
GrowthFailed ==
    /\ last.op \in {"Reserve", "PushBack", "Insert"}
    /\ last.threw

\* C8: when Reserve(k), k > Capacity(), or an append/insert at
\* Size() = Capacity() fails (operator new, the constructor of the inserted
\* element, or a copy while the elements are relocated by copy), Size(),
\* Capacity() and every element are as before the call and no element of the
\* old block is destroyed.
C8_StrongGuarantee ==
    GrowthFailed =>
       /\ vec[last.self] = last.pre.v
       /\ SlotsOf(heap, vec[last.self].buf) = last.pre.slots
       /\ \A i \in 1 .. last.pre.v.size : last.pre.slots[i].live

\* an insertion between two elements fails copying the second, after the
\* inserted element and the first were put in the new block
C8_Witness ==
    /\ GrowthFailed
    /\ last.op = "Insert" /\ last.n = 1
    /\ last.pre.v.size = 2
    /\ last.f = CopyFail(1)
    /\ ~nothrow_move

\* the receiver of the last call was a valid vector
PreValid == ValidRep(last.pre.v, last.pre.slots)

\* C9: Resize(n), n > Capacity(): afterwards Size() = n, Capacity() >= n, the
\* elements of [0, old Size()) are the old ones, in order, and every slot of
\* [old Size(), n) holds a value-initialized element.
C9_ResizeBeyondCapacity ==
    (Called("Resize") /\ PreValid /\ last.n > last.pre.v.cap) =>
       /\ vec[last.self].size = last.n
       /\ vec[last.self].cap >= last.n
       /\ SubSeq(Contents(last.self), 1, last.pre.v.size) = PreContents
       /\ \A i \in last.pre.v.size + 1 .. last.n :
             SlotsOf(heap, vec[last.self].buf)[i] = LiveSlot(Default)

\* C10: Resize(n), Size() < n <= Capacity(): no live element is destroyed, no
\* slot outside [0, Capacity()) is touched, the old elements are unchanged,
\* every slot of [old Size(), n) holds a value-initialized element,
\* Size() = n and the capacity is unchanged.
C10_ResizeWithinCapacity ==
    (last.op = "Resize" /\ PreValid
        /\ last.pre.v.size < last.n /\ last.n <= last.pre.v.cap) =>
       /\ ~last.oob
       /\ \A i \in 1 .. last.pre.v.size : SlotsOf(heap, vec[last.self].buf)[i].live
       /\ vec[last.self].size = last.n
       /\ vec[last.self].cap = last.pre.v.cap
       /\ SubSeq(Contents(last.self), 1, last.pre.v.size) = PreContents
       /\ \A i \in last.pre.v.size + 1 .. last.n :
             SlotsOf(heap, vec[last.self].buf)[i] = LiveSlot(Default)

\* C11: Resize(n), n < Size(): afterwards Size() = n, the first n elements
\* are the old ones, exactly the old slots of [n, Size()) lost their element
\* (each a live one, destroyed once), and the capacity and block are
\* unchanged.
C11_ResizeTruncates ==
    (last.op = "Resize" /\ last.n < last.pre.v.size) =>
       /\ ~last.threw /\ ~last.ub /\ ~last.oob /\ last.lost = 0
       /\ vec[last.self].size = last.n
       /\ vec[last.self].cap = last.pre.v.cap
       /\ vec[last.self].buf = last.pre.v.buf
       /\ Contents(last.self) = SubSeq(PreContents, 1, last.n)
       /\ \A i \in 1 .. last.pre.v.cap :
             SlotsOf(heap, vec[last.self].buf)[i].live
                = (last.pre.slots[i].live /\ i <= last.n)

\* three elements, not all equal, cut down to one, with spare capacity
C11_Witness ==
    /\ Called("Resize")
    /\ last.pre.v.size = 3 /\ last.n = 1 /\ last.pre.v.cap = 4
    /\ PreContents[1] # PreContents[2]
    /\ vec[last.self].size = 1

\* the last call is the Erase of v.Erase(v.Insert(p, x))
Undone == last.op = "Erase" /\ last.note.v.alive

\* C12: after q = Insert(p, v) and then Erase(q), for every position p of
\* [0, size] and every value v (an element of the vector included), the
\* vector has the size and the elements, in order, it had before the Insert,
\* and at least the capacity, whether or not the Insert reallocated.
C12_InsertEraseIdentity ==
    Undone =>
       /\ ~last.ub
       /\ vec[last.self].size = last.note.v.size
       /\ Contents(last.self) = ElemsOf(last.note.slots, last.note.v.size)
       /\ vec[last.self].cap >= last.note.v.cap

\* an insertion into the middle of a full vector of two different elements,
\* which reallocated, undone
C12_Witness ==
    /\ Undone
    /\ last.note.v.size = 2 /\ last.note.v.cap = 2 /\ last.n = 1
    /\ last.note.slots[1].val # last.note.slots[2].val
    /\ vec[last.self].buf # last.note.v.buf
    /\ vec[last.self].size = 2

\* the last call moved the vector last.other into the distinct vector
\* last.self
Moved ==
    \/ Called("Vector(&&)")
    \/ Called("=(&&)") /\ last.self # last.other

\* C13: move construction and move assignment from a distinct vector leave
\* the source with Size() = 0 and Capacity() = 0; the destination has the
\* size and capacity the source had and owns the source's block with every
\* slot as it was: no element is copied or moved.
C13_MoveEmptiesSource ==
    Moved =>
       /\ vec[last.other].size = 0
       /\ vec[last.other].cap = 0
       /\ vec[last.self].size = last.pre2.v.size
       /\ vec[last.self].cap = last.pre2.v.cap
       /\ vec[last.self].buf = last.pre2.v.buf
       /\ SlotsOf(heap, vec[last.self].buf) = last.pre2.slots
       /\ Contents(last.self) = PreContents2

\* a vector of two different elements move-assigned to a vector that held
\* an element of its own
C13_Witness ==
    /\ Called("=(&&)") /\ last.self # last.other
    /\ last.pre2.v.size = 2 /\ PreContents2[1] # PreContents2[2]
    /\ last.pre.v.size = 1
    /\ vec[last.self].size = 2

\* the calls that change one vector
Mutations == {"Write", "PushBack", "Insert", "Erase", "PopBack", "Reserve", "Resize", "Destroy"}

\* the step is a call that copies a vector into a distinct one, and the two
\* share no block afterwards
CopyStepShares ==
    /\ last'.op \in {"Vector(const&)", "=(const&)"}
    /\ last'.self # last'.other
    /\ vec'[last'.self].buf # nullptr
    /\ vec'[last'.self].buf = vec'[last'.other].buf

\* the step is a mutation of one vector that leaves every other vector, and
\* every slot of its block, as it was
MutationStepKeeps ==
    last'.op \in Mutations =>
       \A w \in Vecs \ {last'.self} :
          /\ vec'[w] = vec[w]
          /\ SlotsOf(heap', vec'[w].buf) = SlotsOf(heap, vec[w].buf)

\* C14: after a copy construction or a copy assignment (either path) the two
\* vectors own different blocks, and every later mutation of one (element
\* write, PushBack, Insert, Erase, PopBack, Reserve, Resize, destruction)
\* leaves the size and the elements of the other unchanged.
C14_CopyIndependent == [][~CopyStepShares /\ MutationStepKeeps]_vars

\* the original of a one-element copy overwritten: the copy still holds the
\* value the original had, in a block of its own
C14_Witness ==
    /\ Called("Write") /\ last.self = "a"
    /\ vec["b"].alive /\ vec["b"].size = 1 /\ last.pre.v.size = 1
    /\ vec["b"].buf # vec["a"].buf
    /\ Contents("b") = PreContents
    /\ Contents("a") # Contents("b")

\* the step is a Reserve(k) with k <= Capacity() that allocated or changed
\* something
ReserveStepNotNoOp ==
    /\ last'.op = "Reserve"
    /\ last'.n <= vec[last'.self].cap
    /\ ~(heap' = heap /\ vec' = vec /\ ~last'.threw)

\* the step is a Reserve(k) with k > Capacity() that kept the size and put
\* every element, with its value, at its index in a block of k slots or more
ReserveStepKeeps ==
    (last'.op = "Reserve" /\ last'.n > vec[last'.self].cap /\ ~last'.threw) =>
       /\ vec'[last'.self].cap >= last'.n
       /\ Len(SlotsOf(heap', vec'[last'.self].buf)) = vec'[last'.self].cap
       /\ vec'[last'.self].size = vec[last'.self].size
       /\ \A i \in 1 .. vec[last'.self].size :
             /\ SlotsOf(heap, vec[last'.self].buf)[i].live
             /\ SlotsOf(heap', vec'[last'.self].buf)[i] = SlotsOf(heap, vec[last'.self].buf)[i]

\* C15: Reserve(k), k <= Capacity(), allocates nothing and leaves Size(),
\* Capacity() and every element unchanged; Reserve(k), k > Capacity(), leaves
\* Capacity() >= k, Size() unchanged and every live element at its index with
\* its value.
C15_Reserve == [][~ReserveStepNotNoOp /\ ReserveStepKeeps]_vars

\* a full block of two different elements exchanged for a larger one
C15_Witness ==
    /\ Called("Reserve")
    /\ last.pre.v.size = 2 /\ last.pre.v.cap = 2 /\ last.n > 2
    /\ PreContents[1] # PreContents[2]
    /\ vec[last.self].buf # last.pre.v.buf
    /\ vec[last.self].cap = last.n

\* the step is an append or insert that returned
InsertionStep == last'.op \in {"PushBack", "Insert"} /\ ~last'.threw

\* C16: an append or insert at Size() = Capacity() leaves
\* Capacity() = max(1, 2 * old Capacity()); an append or insert at
\* Size() < Capacity() allocates nothing and leaves the capacity and the
\* block unchanged.
C16_GrowthPolicy ==
    [][InsertionStep =>
          IF vec[last'.self].size = vec[last'.self].cap
          THEN vec'[last'.self].cap
                  = (IF vec[last'.self].cap = 0 THEN 1 ELSE 2 * vec[last'.self].cap)
          ELSE /\ vec'[last'.self].cap = vec[last'.self].cap
               /\ vec'[last'.self].buf = vec[last'.self].buf
               /\ \A i \in DOMAIN heap : heap'[i].alloc = heap[i].alloc]_vars

\* an insertion into a full vector of two elements, which now has room for
\* four
C16_Witness ==
    /\ Called("Insert")
    /\ last.pre.v.size = 2 /\ last.pre.v.cap = 2
    /\ vec[last.self].cap = 4 /\ vec[last.self].size = 3

\* the calls that are not to lower the capacity
CapacityKeepers ==
    {"Reserve", "Resize", "PushBack", "Insert", "Erase", "PopBack", "=(const&)"}

\* C17: no step that is a Reserve, Resize, PushBack/EmplaceBack,
\* Insert/Emplace, Erase, PopBack or copy assignment lowers the Capacity() of
\* any vector.
C17_CapacityNeverDecreases ==
    [][last'.op \in CapacityKeepers =>
          \A v \in Vecs : vec'[v].cap >= vec[v].cap]_vars

\* a vector of two elements assigned a copy of a vector of one: it keeps its
\* two slots
C17_Witness ==
    /\ Called("=(const&)") /\ last.self # last.other
    /\ last.pre.v.size = 2 /\ last.pre.v.cap = 2
    /\ last.pre2.v.size = 1
    /\ vec[last.self].size = 1 /\ vec[last.self].cap = 2

\* the last call was op, at index n, with the value x (NoArg: none), of a
\* vector holding `before`
Stepped(op, n, arg, before) ==
    Called(op) /\ last.n = n /\ last.arg = arg /\ PreContents = before

\* the scenario: each call, made on the contents the call before it is to
\* leave, leaves the contents the scenario states
ScenarioHolds ==
    /\ Stepped("PushBack", 0, Fresh(1), << >>) => Contents("a") = <<1>>
    /\ Stepped("PushBack", 1, Fresh(2), <<1>>) => Contents("a") = <<1, 2>>
    /\ Stepped("PushBack", 2, Fresh(3), <<1, 2>>) => Contents("a") = <<1, 2, 3>>
    /\ Stepped("Insert", 1, Fresh(9), <<1, 2, 3>>) => Contents("a") = <<1, 9, 2, 3>>
    /\ Stepped("Erase", 0, NoArg, <<1, 9, 2, 3>>) => Contents("a") = <<9, 2, 3>>
    /\ Stepped("PopBack", 0, NoArg, <<9, 2, 3>>) => Contents("a") = <<9, 2>>

\* C18: PopBack on a vector of size s >= 1 destroys exactly the element at
\* index s - 1, yields Size() = s - 1, and keeps the elements of [0, s - 1),
\* the capacity and the block; and Append 1, 2, 3; Insert(1, 9); Erase(0);
\* PopBack on an empty vector leave [1,2,3], [1,9,2,3], [9,2,3], [9,2].
C18_PopBack ==
    /\ Called("PopBack") =>
          /\ ~last.ub /\ last.lost = 0
          /\ vec[last.self].size = last.pre.v.size - 1
          /\ Contents(last.self) = SubSeq(PreContents, 1, last.pre.v.size - 1)
          /\ vec[last.self].cap = last.pre.v.cap
          /\ vec[last.self].buf = last.pre.v.buf
          /\ \A i \in 1 .. last.pre.v.cap :
                SlotsOf(heap, vec[last.self].buf)[i].live
                   = (last.pre.slots[i].live /\ i # last.pre.v.size)
    /\ ScenarioHolds

\* the last call of the scenario: PopBack of [9,2,3] in the block of four
\* slots the three appends left
C18_Witness ==
    /\ Stepped("PopBack", 0, NoArg, <<9, 2, 3>>)
    /\ last.pre.v.cap = 4
    /\ Contents("a") = <<9, 2>>

\* the last call is an append or insert at Size() = Capacity() that failed
\* while it copied the old elements into the new block
RelocationFailed ==
    /\ last.op \in {"PushBack", "Insert"}
    /\ last.threw
    /\ last.f.kind = "copy"

\* C19: when a copy fails in the span before or after the insertion point
\* while a growing append/insert relocates, every element already
\* constructed in the new block (the inserted one, the relocated ones of the
\* span before) is destroyed before the new block is released: the released
\* block holds no live element.
C19_NewBlockCleanedUp == RelocationFailed => last.lost = 0

\* the last call is an append or insert made at Size() = Capacity()
Grew == last.op \in {"PushBack", "Insert"} /\ last.pre.v.size = last.pre.v.cap

\* the steps named ev among the steps t
StepsOf(t, ev) == {i \in 1 .. Len(t) : t[i].ev = ev}

\* C20: in an append or insert at Size() = Capacity() the new block is
\* allocated first; the inserted element is constructed next, at its final
\* slot, before any element is relocated; the old elements are destroyed only
\* after the span before and the span after the insertion point were both
\* relocated; the blocks are swapped after the old elements are destroyed;
\* and Size() is incremented last, when nothing threw.
C20_GrowthOrder ==
    Grew =>
       LET t == last.trace
           before == Ev("relocate", 0, last.n)
           after == Ev("relocate", last.n, last.pre.v.size - last.n)
       IN  /\ StepsOf(t, "allocate") = {1}
           /\ StepsOf(t, "construct") \subseteq {2}
           /\ \A i \in StepsOf(t, "construct") : t[i].at = last.n
           /\ \A i \in StepsOf(t, "relocate") : i > 2 /\ 2 \in StepsOf(t, "construct")
           /\ \A i \in StepsOf(t, "destroy") :
                 \E j, k \in 1 .. i - 1 : j < k /\ t[j] = before /\ t[k] = after
           /\ \A i \in StepsOf(t, "swap") : \E j \in StepsOf(t, "destroy") : j < i
           /\ \A i \in StepsOf(t, "size") :
                 i = Len(t) /\ \E j \in StepsOf(t, "swap") : j < i
           /\ ~last.threw =>
                 /\ t[Len(t)].ev = "size"
                 /\ Contents(last.self)[last.n + 1]
                       = ArgVal(last.pre.slots, last.arg)

\* an insertion between the two elements of a full vector, which went
\* through every step
C20_Witness ==
    /\ Grew /\ Called("Insert")
    /\ last.pre.v.size = 2 /\ last.n = 1
    /\ Len(last.trace) = 7
    /\ vec[last.self].size = 3

=============================================================================
